---- MODULE Spec2Model ----
(***************************************************************************)
(* DisasterConnect: the peer mesh messaging core.                          *)
(*                                                                         *)
(* Two prototypes live in the repository and both are modelled here:       *)
(*   - src/pythonEngine: discovery table, HTTP facade (do_POST), the TCP   *)
(*     peer server (handle_client), the ack registry (message_router) and  *)
(*     the persistent store-and-forward buffer (store_forward);            *)
(*   - src/p2p: P2PHost (peer directory, broadcast), PeerDiscovery and     *)
(*     ChatRoom (the duplicate-suppressed room log).                       *)
(* Spec      : the engine node as src/pythonEngine/main.py wires it:       *)
(*             discovery, do_POST, the peer server and the ack registry.   *)
(* SpecNode  : Spec with weak fairness of the node's own threads.          *)
(* SpecStore : store_forward (buffer, file, lock, flush_buffer) driven by  *)
(*             its callers, with process restarts.                         *)
(* SpecRoom  : ChatRoom: inbound handlers, publish, clear_messages.        *)
(* SpecHost  : P2PHost and PeerDiscovery: peer directory and broadcast.    *)
(* SpecE2E   : discovery, connect and the room log of the listening node   *)
(*             while one peer announces and publishes.                     *)
(* SpecLife  : start, background loops, inbound connections and stop of    *)
(*             host and discovery; SpecLifeFair adds thread fairness.      *)
(* SpecInbound : inbound connections of both prototypes, well-formed and  *)
(*             malformed, beside SOS requests.                             *)
(* SpecRestart : Spec with a stop and a new start of the process.          *)
(* SpecLocks : the threads that take message_lock or peer_lock, with       *)
(*             get_room_info nesting the two.                              *)
(***************************************************************************)
EXTENDS Integers, Sequences, FiniteSets, TLC

(* ------------------------------------------------------------------ *)
(* Bounds and input sets                                              *)
(* ------------------------------------------------------------------ *)
\* number of envelopes create_message may create in one behaviour
MaxMsgs == 2
\* config.SOS_RETRY_COUNT (imported in message_router.py; its value is not in src/)
SOS_RETRY_COUNT == 2

IPs == {"ipA", "ipB"}
Ports == {"tcp"}
MsgTypes == {"SOS", "CHAT"}
Ids == 1..MaxMsgs
\* message_buffer.json: absent, or present with its JSON text
NoFile == [exists |-> FALSE, text |-> {}]
File(j) == [exists |-> TRUE, text |-> j]
Free == "free"
\* flush_buffer's send_func parameter: peer_client.send_message, or a sender
\* that only reports success or failure
SendFuncs == {"send_message", "raw_send"}

\* readings datetime.now() can take: 0..MaxClock
MaxClock == 1
\* number of ChatRoom.publish calls in one behaviour
MaxPublish == 1
\* number of announcements received from peers that had announced before
MaxRepeat == 2

SelfId == "self"
PeerIds == {"peerA", "peerB", "peerC"}
RoomName == "relief"
Texts == {"help"}
Nicks == {"nick"}
Handlers == {"h1", "h2"}

VARIABLES
    phase,          \* "boot" (module import done, threads not started) | "running"
    peers,          \* discovery.peers: insertion-ordered dict ip -> tcp_port
    reachable,      \* addresses that currently accept TCP connections
    pending_acks,   \* message_router.pending_acks: id -> set of ips
    buffer,         \* store_forward.buffer: ip -> list of envelopes
    disk,           \* contents of message_buffer.json, or NoFile
    lock,           \* store_forward.lock: Free or the holding thread
    post,           \* the HTTP server thread inside API.do_POST
    fl,             \* a thread inside store_forward.flush_buffer
    nextId,         \* next fresh uuid
    conns,          \* connections accepted by peers, not yet handled: <<ip, msg>>
    peer_acks,      \* ACKs peers wrote back on the SOS connection: <<ip, id>>
    acks_received,  \* ACK envelopes our handle_client processed: <<id, ip>>
    loaded,         \* load_buffer read the file since the last process start
    saved_mem,      \* the in-memory buffer as of the last save_buffer
    restored,       \* what load_buffer restored since the last process start
    host_peers,     \* P2PHost.peers: peer_id -> (ip, port)
    peer_up,        \* peer ids whose host currently accepts TCP connections
    discovered_peers, \* PeerDiscovery.discovered_peers
    disc,           \* the discovery listener thread inside on_peer_found
    messages,       \* ChatRoom.messages, the room log
    now,            \* the reading of datetime.now()
    pub,            \* a thread inside ChatRoom.publish
    hth,            \* the connection threads inside _handle_incoming_message
    last_res,       \* how the last finished _handle_incoming_message call ended
    published,      \* number of publish calls made
    bc_failed,      \* failed broadcast sends: <<(ip, port), chat message>>
    hrun,           \* P2PHost lifecycle: running flag, listening socket, acceptor thread
    drun,           \* PeerDiscovery lifecycle: running flag, sockets, its two threads
    cth,            \* a connection thread inside _handle_peer_connection
    ech,            \* a connection thread inside peer_server.handle_client
    message_lock,   \* ChatRoom.message_lock: Free or the holding thread
    peer_lock,      \* P2PHost.peer_lock: Free or the holding thread
    info            \* a thread inside ChatRoom.get_room_info

engineVars == <<phase, peers, reachable, pending_acks, buffer, disk, lock, post, fl,
                nextId, conns, peer_acks, acks_received, loaded, saved_mem, restored>>

chatVars == <<host_peers, peer_up, discovered_peers, disc, messages, now, pub, hth, last_res,
              published, bc_failed>>

lifeVars == <<hrun, drun, cth>>

lockVars == <<message_lock, peer_lock, info>>

vars == <<engineVars, chatVars, lifeVars, ech, lockVars>>

(* ------------------------------------------------------------------ *)
(* Message Protocol (message_protocol.py)                             *)
(* ------------------------------------------------------------------ *)
create_message(id, msg_type, sender, text) ==
    [id |-> id, type |-> msg_type, sender |-> sender, timestamp |-> id, text |-> text]

\* the JSON text of one envelope: an ordered member list
encode_message(m) == <<m.id, m.type, m.sender, m.timestamp, m.text>>

decode_message(j) ==
    [id |-> j[1], type |-> j[2], sender |-> j[3], timestamp |-> j[4], text |-> j[5]]

EmptyMap == [x \in {} |-> <<>>]

\* dict.get(k, [])
Get(b, k) == IF k \in DOMAIN b THEN b[k] ELSE <<>>

\* dict[k] = v
Put(b, k, v) == [x \in (DOMAIN b) \cup {k} |-> IF x = k THEN v ELSE b[x]]

MapSeq(s, Op(_)) == [i \in 1..Len(s) |-> Op(s[i])]

(* ------------------------------------------------------------------ *)
(* Store-and-forward persistence (store_forward.py)                   *)
(* ------------------------------------------------------------------ *)
\* json.dump(buffer, f): the object's members, every list of envelopes encoded
json_dump(b) == { <<k, MapSeq(b[k], encode_message)>> : k \in DOMAIN b }

\* json.load(f): rebuild the dict from the members
json_load(j) ==
    [k \in { p[1] : p \in j } |->
        MapSeq((CHOOSE p \in j : p[1] = k)[2], decode_message)]

\* a buffer mutation that is not written to the file
save_buffer_skipped(b) == disk

\* save_buffer(): the file is rewritten with json.dump(buffer, f)
save_buffer(b) == File(json_dump(b))

\* buffer[ip] = [message] in the place of setdefault(ip, []).append(message)
buffer_append_replace(b, ip, m) == Put(b, ip, <<m>>)

\* buffer.setdefault(ip, []).append(message)
buffer_append(b, ip, m) == Put(b, ip, Append(Get(b, ip), m))

\* remaining.insert(0, msg) in the place of remaining.append(msg)
remaining_prepend(remaining, m) == <<m>> \o remaining

\* flush_buffer's `remaining.append(msg)` for a send that returned False
remaining_append(remaining, m) == Append(remaining, m)

(* ------------------------------------------------------------------ *)
(* Ack registry (message_router.py)                                   *)
(* ------------------------------------------------------------------ *)
\* pending_acks[msg_id] = set(peers)
register_ack(pa, msg_id, ps) == Put(pa, msg_id, ps)

\* pending_acks.pop(msg_id, None)
handle_ack(pa, msg_id) == [x \in (DOMAIN pa) \ {msg_id} |-> pa[x]]

\* the test wait_for_acks makes at every poll: msg_id not in pending_acks
ack_complete(pa, msg_id) == msg_id \notin DOMAIN pa

(* ------------------------------------------------------------------ *)
(* Initial state: the module globals after import                     *)
(* ------------------------------------------------------------------ *)
PostIdle == [pc |-> "idle", msg |-> create_message(0, "CHAT", "UI", "text"),
             targets |-> <<>>, idx |-> 1, polls |-> 0, delivered |-> FALSE,
             emitted |-> {}, acked |-> {}]

FlushIdle == [pc |-> "idle", ip |-> "ipA", sf |-> "raw_send", msgs |-> <<>>,
              remaining |-> <<>>, idx |-> 1, attempts |-> <<>>, outcomes |-> <<>>]

InitEngine ==
    /\ phase = "boot"
    /\ peers = <<>>
    /\ reachable = {}
    /\ pending_acks = EmptyMap
    /\ buffer = EmptyMap
    /\ disk = NoFile
    /\ lock = Free
    /\ post = PostIdle
    /\ fl = FlushIdle
    /\ nextId = 1
    /\ conns = {}
    /\ peer_acks = {}
    /\ acks_received = {}
    /\ loaded = FALSE
    /\ saved_mem = EmptyMap
    /\ restored = EmptyMap

TargetIps(targets) == { targets[i][1] : i \in 1..Len(targets) }

(* ------------------------------------------------------------------ *)
(* Process bootstrap and environment                                  *)
(* ------------------------------------------------------------------ *)
\* main.py 9-12: the server, announcer, listener and API threads are started
StartNode ==
    /\ phase = "boot"
    /\ phase' = "running"
    /\ UNCHANGED <<peers, reachable, pending_acks, buffer, disk, lock, post, fl, nextId,
                   conns, peer_acks, acks_received, loaded, saved_mem, restored>>
    /\ UNCHANGED chatVars
    /\ UNCHANGED lifeVars
    /\ UNCHANGED <<ech, lockVars>>

\* load_buffer(): buffer = json.load(f) when the file exists
LoadBuffer ==
    /\ phase = "boot"
    /\ ~loaded
    /\ loaded' = TRUE
    /\ buffer' = IF disk # NoFile THEN json_load(disk.text) ELSE buffer
    /\ restored' = buffer'
    /\ UNCHANGED <<phase, peers, reachable, pending_acks, disk, lock, post, fl, nextId,
                   conns, peer_acks, acks_received, saved_mem>>
    /\ UNCHANGED chatVars
    /\ UNCHANGED lifeVars
    /\ UNCHANGED <<ech, lockVars>>

\* the process stops and a new one is started: every module global is
\* re-initialised, the file and the network stay
Restart ==
    /\ phase = "running"
    /\ phase' = "boot"
    /\ peers' = <<>>
    /\ pending_acks' = EmptyMap
    /\ buffer' = EmptyMap
    /\ lock' = Free
    /\ post' = PostIdle
    /\ fl' = FlushIdle
    /\ acks_received' = {}
    /\ loaded' = FALSE
    /\ restored' = EmptyMap
    /\ UNCHANGED <<reachable, disk, nextId, conns, peer_acks, saved_mem>>
    /\ UNCHANGED chatVars
    /\ UNCHANGED lifeVars
    /\ UNCHANGED <<ech, lockVars>>

\* a peer starts or stops accepting connections
SetReachable(ip) ==
    /\ reachable' = IF ip \in reachable THEN reachable \ {ip} ELSE reachable \cup {ip}
    /\ UNCHANGED <<phase, peers, pending_acks, buffer, disk, lock, post, fl, nextId,
                   conns, peer_acks, acks_received, loaded, saved_mem, restored>>
    /\ UNCHANGED chatVars
    /\ UNCHANGED lifeVars
    /\ UNCHANGED <<ech, lockVars>>

\* dict assignment that keeps the insertion order of an existing key
peers_put(ps, ip, port) ==
    IF \E i \in 1..Len(ps) : ps[i][1] = ip
    THEN [i \in 1..Len(ps) |-> IF ps[i][1] = ip THEN <<ip, port>> ELSE ps[i]]
    ELSE Append(ps, <<ip, port>>)

\* discovery.listen_for_peers: peers[ip] = info["tcp_port"]
listen_for_peers(ip, port) ==
    /\ phase = "running"
    /\ peers' = peers_put(peers, ip, port)
    /\ UNCHANGED <<phase, reachable, pending_acks, buffer, disk, lock, post, fl, nextId,
                   conns, peer_acks, acks_received, loaded, saved_mem, restored>>
    /\ UNCHANGED chatVars
    /\ UNCHANGED lifeVars
    /\ UNCHANGED <<ech, lockVars>>

(* ------------------------------------------------------------------ *)
(* HTTP facade: API.do_POST (engine_api.py 25-42)                     *)
(* ------------------------------------------------------------------ *)
\* an SOS that skips the registration and goes straight to the send loop
first_step_send(msg_type) == "send"

\* lines 33-37: for an SOS register_ack comes before the send loop
first_step(msg_type) == IF msg_type = "SOS" THEN "register" ELSE "send"

\* lines 26-31: create_message, then the snapshot list(peers.items())
PostStart(msg_type) ==
    /\ phase = "running"
    /\ post.pc = "idle"
    /\ nextId <= MaxMsgs
    /\ post' = [PostIdle EXCEPT !.pc = first_step(msg_type),
                                !.msg = create_message(nextId, msg_type, "UI", "text"),
                                !.targets = peers]
    /\ nextId' = nextId + 1
    /\ UNCHANGED <<phase, peers, reachable, pending_acks, buffer, disk, lock, fl,
                   conns, peer_acks, acks_received, loaded, saved_mem, restored>>
    /\ UNCHANGED chatVars
    /\ UNCHANGED lifeVars
    /\ UNCHANGED <<ech, lockVars>>

\* lines 33-34: register_ack(msg["id"], [ip for ip, _ in targets])
PostRegister ==
    /\ post.pc = "register"
    /\ pending_acks' = register_ack(pending_acks, post.msg.id, TargetIps(post.targets))
    /\ post' = [post EXCEPT !.pc = "send"]
    /\ UNCHANGED <<phase, peers, reachable, buffer, disk, lock, fl, nextId,
                   conns, peer_acks, acks_received, loaded, saved_mem, restored>>
    /\ UNCHANGED chatVars
    /\ UNCHANGED lifeVars
    /\ UNCHANGED <<ech, lockVars>>

\* lines 36-37 with peer_client.send_message 7-14: connect, sendall, close; an
\* exception enters buffer_message
PostSend ==
    /\ post.pc = "send"
    /\ post.idx <= Len(post.targets)
    /\ LET ip == post.targets[post.idx][1] IN
         IF ip \in reachable
         THEN /\ conns' = conns \cup {<<ip, post.msg>>}
              /\ post' = [post EXCEPT !.idx = @ + 1]
         ELSE /\ post' = [post EXCEPT !.pc = "buffer_message"]
              /\ UNCHANGED conns
    /\ UNCHANGED <<phase, peers, reachable, pending_acks, buffer, disk, lock, fl, nextId,
                   peer_acks, acks_received, loaded, saved_mem, restored>>
    /\ UNCHANGED chatVars
    /\ UNCHANGED lifeVars
    /\ UNCHANGED <<ech, lockVars>>

\* peer_client.send_message 15-16 with store_forward.buffer_message 19-22, in
\* thread t: `with lock` acquires store_forward.lock, a non-reentrant
\* threading.Lock; append; save_buffer(); release; send_message returns False
\* to do_POST's loop or to flush_buffer's loop
buffer_message(t) ==
    /\ lock = Free
    /\ \/ /\ t = "api"
          /\ post.pc = "buffer_message"
          /\ buffer' = buffer_append(buffer, post.targets[post.idx][1], post.msg)
          /\ post' = [post EXCEPT !.pc = "send", !.idx = @ + 1]
          /\ UNCHANGED fl
       \/ /\ t = "flusher"
          /\ fl.pc = "buffer_message"
          /\ buffer' = buffer_append(buffer, fl.ip, fl.msgs[fl.idx])
          /\ fl' = [fl EXCEPT !.pc = "flush_loop", !.idx = @ + 1,
                              !.remaining = remaining_append(@, fl.msgs[fl.idx]),
                              !.outcomes = Append(@, FALSE)]
          /\ UNCHANGED post
    /\ disk' = save_buffer(buffer')
    /\ saved_mem' = buffer'
    /\ UNCHANGED <<phase, peers, reachable, pending_acks, lock, nextId,
                   conns, peer_acks, acks_received, loaded, restored>>
    /\ UNCHANGED chatVars
    /\ UNCHANGED lifeVars
    /\ UNCHANGED <<ech, lockVars>>

\* lines 39-42: after the loop, wait_for_acks for an SOS, else {"status": "sent"}
PostSent ==
    /\ post.pc = "send"
    /\ post.idx > Len(post.targets)
    /\ post' = [post EXCEPT !.pc = IF post.msg.type = "SOS" THEN "wait" ELSE "done",
                            !.emitted = { ip \in IPs : <<ip, post.msg.id>> \in peer_acks }]
    /\ UNCHANGED <<phase, peers, reachable, pending_acks, buffer, disk, lock, fl, nextId,
                   conns, peer_acks, acks_received, loaded, saved_mem, restored>>
    /\ UNCHANGED chatVars
    /\ UNCHANGED lifeVars
    /\ UNCHANGED <<ech, lockVars>>

AckedBy(id) == { ip \in IPs : <<id, ip>> \in acks_received }

\* message_router.wait_for_acks 17-21: one sleep and one test of pending_acks
WaitPoll ==
    /\ post.pc = "wait"
    /\ post.polls < SOS_RETRY_COUNT
    /\ IF ack_complete(pending_acks, post.msg.id)
       THEN post' = [post EXCEPT !.pc = "done", !.polls = @ + 1, !.delivered = TRUE,
                                 !.acked = AckedBy(post.msg.id)]
       ELSE post' = [post EXCEPT !.polls = @ + 1]
    /\ UNCHANGED <<phase, peers, reachable, pending_acks, buffer, disk, lock, fl, nextId,
                   conns, peer_acks, acks_received, loaded, saved_mem, restored>>
    /\ UNCHANGED chatVars
    /\ UNCHANGED lifeVars
    /\ UNCHANGED <<ech, lockVars>>

\* message_router.wait_for_acks 22: the range is exhausted, return False
WaitExhausted ==
    /\ post.pc = "wait"
    /\ post.polls >= SOS_RETRY_COUNT
    /\ post' = [post EXCEPT !.pc = "done", !.delivered = FALSE,
                            !.acked = AckedBy(post.msg.id)]
    /\ UNCHANGED <<phase, peers, reachable, pending_acks, buffer, disk, lock, fl, nextId,
                   conns, peer_acks, acks_received, loaded, saved_mem, restored>>
    /\ UNCHANGED chatVars
    /\ UNCHANGED lifeVars
    /\ UNCHANGED <<ech, lockVars>>

\* the response is written and the server thread takes the next request
PostRespond ==
    /\ post.pc = "done"
    /\ post' = PostIdle
    /\ UNCHANGED <<phase, peers, reachable, pending_acks, buffer, disk, lock, fl, nextId,
                   conns, peer_acks, acks_received, loaded, saved_mem, restored>>
    /\ UNCHANGED chatVars
    /\ UNCHANGED lifeVars
    /\ UNCHANGED <<ech, lockVars>>

(* ------------------------------------------------------------------ *)
(* TCP peer server: handle_client (peer_server.py 7-22)               *)
(* ------------------------------------------------------------------ *)
\* a peer's handle_client on a connection we opened: lines 15-20, an SOS is
\* answered with an ACK written back on that same connection, then close
PeerHandleClient(ip, m) ==
    /\ <<ip, m>> \in conns
    /\ conns' = conns \ {<<ip, m>>}
    /\ peer_acks' = IF m.type = "SOS" THEN peer_acks \cup {<<ip, m.id>>} ELSE peer_acks
    /\ UNCHANGED <<phase, peers, reachable, pending_acks, buffer, disk, lock, post, fl,
                   nextId, acks_received, loaded, saved_mem, restored>>
    /\ UNCHANGED chatVars
    /\ UNCHANGED lifeVars
    /\ UNCHANGED <<ech, lockVars>>

\* our handle_client on an inbound connection from ip that carries an ACK
\* envelope for ack_id (lines 13-14): a peer that handled the SOS acknowledges
\* it to our server
HandleClientAck(ip, ack_id) ==
    /\ phase = "running"
    /\ <<ip, ack_id>> \in peer_acks
    /\ <<ack_id, ip>> \notin acks_received
    /\ pending_acks' = handle_ack(pending_acks, ack_id)
    /\ acks_received' = acks_received \cup {<<ack_id, ip>>}
    /\ UNCHANGED <<phase, peers, reachable, buffer, disk, lock, post, fl, nextId,
                   conns, peer_acks, loaded, saved_mem, restored>>
    /\ UNCHANGED chatVars
    /\ UNCHANGED lifeVars
    /\ UNCHANGED <<ech, lockVars>>

(* ------------------------------------------------------------------ *)
(* store_forward.flush_buffer (24-32)                                 *)
(* ------------------------------------------------------------------ *)
\* lines 25-27: with lock; msgs = buffer.get(ip, []); remaining = []
FlushStart(ip, sf) ==
    /\ phase = "running"
    /\ fl.pc = "idle"
    /\ lock = Free
    /\ lock' = "flusher"
    /\ fl' = [FlushIdle EXCEPT !.pc = "flush_loop", !.ip = ip, !.sf = sf,
                               !.msgs = Get(buffer, ip)]
    /\ UNCHANGED <<phase, peers, reachable, pending_acks, buffer, disk, post, nextId,
                   conns, peer_acks, acks_received, loaded, saved_mem, restored>>
    /\ UNCHANGED chatVars
    /\ UNCHANGED lifeVars
    /\ UNCHANGED <<ech, lockVars>>

\* lines 28-30: one send_func(ip, port, msg); a failing send_message enters
\* buffer_message while this thread holds the lock
FlushSend ==
    /\ fl.pc = "flush_loop"
    /\ fl.idx <= Len(fl.msgs)
    /\ LET m == fl.msgs[fl.idx] IN
         IF fl.ip \in reachable
         THEN /\ conns' = conns \cup {<<fl.ip, m>>}
              /\ fl' = [fl EXCEPT !.idx = @ + 1, !.attempts = Append(@, m),
                                  !.outcomes = Append(@, TRUE)]
         ELSE /\ UNCHANGED conns
              /\ IF fl.sf = "send_message"
                 THEN fl' = [fl EXCEPT !.pc = "buffer_message", !.attempts = Append(@, m)]
                 ELSE fl' = [fl EXCEPT !.idx = @ + 1, !.attempts = Append(@, m),
                                       !.remaining = remaining_append(@, m),
                                       !.outcomes = Append(@, FALSE)]
    /\ UNCHANGED <<phase, peers, reachable, pending_acks, buffer, disk, lock, post, nextId,
                   peer_acks, acks_received, loaded, saved_mem, restored>>
    /\ UNCHANGED chatVars
    /\ UNCHANGED lifeVars
    /\ UNCHANGED <<ech, lockVars>>

\* lines 31-32: buffer[ip] = remaining; save_buffer(); the lock is released
FlushFinish ==
    /\ fl.pc = "flush_loop"
    /\ fl.idx > Len(fl.msgs)
    /\ buffer' = Put(buffer, fl.ip, fl.remaining)
    /\ disk' = save_buffer(buffer')
    /\ saved_mem' = buffer'
    /\ lock' = Free
    /\ fl' = [fl EXCEPT !.pc = "flush_done"]
    /\ UNCHANGED <<phase, peers, reachable, pending_acks, post, nextId,
                   conns, peer_acks, acks_received, loaded, restored>>
    /\ UNCHANGED chatVars
    /\ UNCHANGED lifeVars
    /\ UNCHANGED <<ech, lockVars>>

\* the caller of flush_buffer goes on
FlushReturn ==
    /\ fl.pc = "flush_done"
    /\ fl' = FlushIdle
    /\ UNCHANGED <<phase, peers, reachable, pending_acks, buffer, disk, lock, post, nextId,
                   conns, peer_acks, acks_received, loaded, saved_mem, restored>>
    /\ UNCHANGED chatVars
    /\ UNCHANGED lifeVars
    /\ UNCHANGED <<ech, lockVars>>

(* ------------------------------------------------------------------ *)
(* Chat room (chatroom.py)                                            *)
(* ------------------------------------------------------------------ *)
\* ChatMessage(**data) with __post_init__ (10-21): a missing Timestamp is
\* replaced by the clock reading
ChatMessage(data, clock) ==
    [SenderID |-> data.SenderID, Message |-> data.Message, SenderNick |-> data.SenderNick,
     Timestamp |-> IF data.has_ts THEN data.Timestamp ELSE clock]

\* a duplicate test that looks at the newest log entry only
is_duplicate_last(msgs, chat_msg) ==
    /\ Len(msgs) > 0
    /\ msgs[Len(msgs)].SenderID = chat_msg.SenderID
    /\ msgs[Len(msgs)].Message = chat_msg.Message
    /\ msgs[Len(msgs)].Timestamp = chat_msg.Timestamp

\* lines 116-121: any(m.SenderID == ... and m.Message == ... and m.Timestamp == ...)
is_duplicate(msgs, chat_msg) ==
    \E i \in 1..Len(msgs) :
        /\ msgs[i].SenderID = chat_msg.SenderID
        /\ msgs[i].Message = chat_msg.Message
        /\ msgs[i].Timestamp = chat_msg.Timestamp

\* a handler without the own-message filter
is_own_never(chat_msg) == FALSE

\* line 110: chat_msg.SenderID == self.peer_id
is_own(chat_msg) == chat_msg.SenderID = SelfId

\* the data of inbound chat messages: from peerA with a timestamp or without
\* one, and an echo of an own message
ChatData ==
    { d \in [SenderID : {"peerA"}, Message : Texts, SenderNick : Nicks,
             Timestamp : 0..MaxClock, has_ts : BOOLEAN] : d.has_ts \/ d.Timestamp = 0 }
    \cup [SenderID : {SelfId}, Message : Texts, SenderNick : Nicks,
          Timestamp : {0}, has_ts : {TRUE}]

NoData == [SenderID |-> "peerA", Message |-> "help", SenderNick |-> "nick",
           Timestamp |-> 0, has_ts |-> TRUE]

\* what a connection can carry to the handlers: chat messages of this room, a
\* chat message of another room, a handshake
InboundMsgs ==
    { [type |-> "chat_message", room |-> RoomName, data |-> d] : d \in ChatData }
    \cup { [type |-> "chat_message", room |-> "other", data |-> NoData],
           [type |-> "handshake", room |-> "none", data |-> NoData] }

\* _handle_incoming_message 99: message_data.get('type') != 'chat_message'
is_chat_type(md) == md.type = "chat_message"

\* a room filter that lets every room tag through
is_this_room_any(md) == TRUE

\* _handle_incoming_message 102: message_data.get('room') != self.room_name
is_this_room(md) == md.room = RoomName

NoMsg == [type |-> "handshake", room |-> "none", data |-> NoData]

\* md: the message_data argument of the call in progress
HandlerIdle == [pc |-> "idle", chat_msg |-> ChatMessage(NoData, 0), md |-> NoMsg]

\* snap: peers_copy; todo: its entries not yet tried; count: successful_sends;
\* ok, failed: the peers of peers_copy the send to which succeeded, raised
PubIdle == [pc |-> "idle", msg |-> ChatMessage(NoData, 0), snap |-> EmptyMap, todo |-> {},
            count |-> 0, ok |-> {}, failed |-> {}, result |-> FALSE]

\* the discovery listener thread: pc and peer are its position and the peer
\* it is connecting to; the other fields record what it did so far:
\*   announced   peers whose announcement for this rendezvous was received
\*   repeats     announcements received from peers already in announced
\*   found_calls number of on_peer_found calls per peer id
\*   handshaken  peers the handshake send reached
DiscIdle == [pc |-> "idle", peer |-> "peerA", announced |-> {}, repeats |-> 0,
             found_calls |-> [p \in PeerIds \cup {SelfId} |-> 0], handshaken |-> {}]

\* how a handler call ended, and for an accepted message the ChatMessage
Outcome(res, chat_msg) == [res |-> res, msg |-> chat_msg]

InitChat ==
    /\ host_peers = EmptyMap
    /\ peer_up = {}
    /\ discovered_peers = {}
    /\ disc = DiscIdle
    /\ messages = <<>>
    /\ now = 0
    /\ pub = PubIdle
    /\ hth = [h \in Handlers |-> HandlerIdle]
    /\ last_res = Outcome("none", ChatMessage(NoData, 0))
    /\ published = 0
    /\ bc_failed = {}

\* datetime.now() advances
Tick ==
    /\ now < MaxClock
    /\ now' = now + 1
    /\ UNCHANGED <<host_peers, peer_up, discovered_peers, disc, messages, pub, hth, last_res,
                   published, bc_failed>>
    /\ UNCHANGED engineVars
    /\ UNCHANGED lifeVars
    /\ UNCHANGED <<ech, lockVars>>

\* host.py 94-96 and _handle_incoming_message 97-111: a connection thread calls
\* the room's handler with message md; the type and room filters,
\* ChatMessage(**data) and the own-message filter read no shared state
HandleParse(h, md) ==
    /\ hth[h].pc = "idle"
    /\ LET chat_msg == ChatMessage(md.data, now)
       IN  IF ~is_chat_type(md)
           THEN last_res' = Outcome("not_chat", ChatMessage(NoData, 0)) /\ UNCHANGED hth
           ELSE IF ~is_this_room(md)
           THEN last_res' = Outcome("other_room", ChatMessage(NoData, 0)) /\ UNCHANGED hth
           ELSE IF is_own(chat_msg)
           THEN last_res' = Outcome("own", ChatMessage(NoData, 0)) /\ UNCHANGED hth
           ELSE /\ hth' = [hth EXCEPT ![h] = [pc |-> "append", chat_msg |-> chat_msg,
                                               md |-> md]]
                /\ UNCHANGED last_res
    /\ UNCHANGED <<host_peers, peer_up, discovered_peers, disc, messages, now, pub,
                   published, bc_failed>>
    /\ UNCHANGED engineVars
    /\ UNCHANGED lifeVars
    /\ UNCHANGED <<ech, lockVars>>

\* _handle_incoming_message 114-125: with message_lock: the duplicate test and
\* the append
HandleAppend(h) ==
    /\ hth[h].pc = "append"
    /\ message_lock = Free
    /\ hth' = [hth EXCEPT ![h] = HandlerIdle]
    /\ IF is_duplicate(messages, hth[h].chat_msg)
       THEN /\ last_res' = Outcome("duplicate", hth[h].chat_msg)
            /\ UNCHANGED messages
       ELSE /\ last_res' = Outcome("appended", hth[h].chat_msg)
            /\ messages' = Append(messages, hth[h].chat_msg)
    /\ UNCHANGED <<host_peers, peer_up, discovered_peers, disc, now, pub,
                   published, bc_failed>>
    /\ UNCHANGED engineVars
    /\ UNCHANGED lifeVars
    /\ UNCHANGED <<ech, lockVars>>

\* clear_messages 176-180: with message_lock: self.messages.clear()
clear_messages ==
    /\ messages # <<>>
    /\ message_lock = Free
    /\ messages' = <<>>
    /\ UNCHANGED <<host_peers, peer_up, discovered_peers, disc, now, pub, hth, last_res,
                   published, bc_failed>>
    /\ UNCHANGED engineVars
    /\ UNCHANGED lifeVars
    /\ UNCHANGED <<ech, lockVars>>

\* publish 58-66: the ChatMessage is built and appended under message_lock
PublishAppend(text, nick) ==
    /\ pub.pc \in {"idle", "done"}
    /\ message_lock = Free
    /\ published < MaxPublish
    /\ published' = published + 1
    /\ LET chat_msg == [SenderID |-> SelfId, Message |-> text, SenderNick |-> nick,
                        Timestamp |-> now]
       IN  /\ messages' = Append(messages, chat_msg)
           /\ pub' = [PubIdle EXCEPT !.pc = "snapshot", !.msg = chat_msg]
    /\ UNCHANGED <<host_peers, peer_up, discovered_peers, disc, now, hth, last_res, bc_failed>>
    /\ UNCHANGED engineVars
    /\ UNCHANGED lifeVars
    /\ UNCHANGED <<ech, lockVars>>

(* ------------------------------------------------------------------ *)
(* P2P host (host.py) and discovery listener (p2p/discovery.py)       *)
(* ------------------------------------------------------------------ *)
\* a fan-out that runs inside the `with self.peer_lock` block
lock_after_snapshot_held(holder) == holder

\* broadcast_message 143-146: the `with self.peer_lock` block ends with the
\* copy, before the loop over peers_copy
lock_after_snapshot(holder) == Free

\* broadcast_message 139-144: with peer_lock: peers_copy = list(self.peers.items())
BroadcastSnapshot ==
    /\ pub.pc = "snapshot"
    /\ peer_lock = Free
    /\ peer_lock' = lock_after_snapshot("pub")
    /\ pub' = [pub EXCEPT !.pc = "broadcast", !.snap = host_peers,
                          !.todo = DOMAIN host_peers]
    /\ UNCHANGED <<host_peers, peer_up, discovered_peers, disc, messages, now, hth, last_res,
                   published, bc_failed>>
    /\ UNCHANGED engineVars
    /\ UNCHANGED lifeVars
    /\ UNCHANGED <<ech, message_lock, info>>

\* a counter that counts every attempt
successful_sends_attempts(count, sent) == count + 1

\* broadcast_message 141, 153: successful_sends += 1 is reached only when
\* connect, send and close raised nothing
successful_sends(count, sent) == IF sent THEN count + 1 ELSE count

\* broadcast_message 146-159: one connect/send/close; a failure is printed
BroadcastSend(p) ==
    /\ pub.pc = "broadcast"
    /\ p \in pub.todo
    /\ LET sent == p \in peer_up
       IN  /\ pub' = [pub EXCEPT !.todo = @ \ {p},
                                 !.count = successful_sends(@, sent),
                                 !.ok = IF sent THEN @ \cup {p} ELSE @,
                                 !.failed = IF sent THEN @ ELSE @ \cup {p}]
           /\ bc_failed' = IF sent THEN bc_failed
                           ELSE bc_failed \cup {<<pub.snap[p], pub.msg>>}
    /\ UNCHANGED <<host_peers, peer_up, discovered_peers, disc, messages, now, hth, last_res,
                   published>>
    /\ UNCHANGED engineVars
    /\ UNCHANGED lifeVars
    /\ UNCHANGED <<ech, lockVars>>

\* a publish that reports success whatever the count
publish_result_always(success_count) == TRUE

\* publish 78-83: return True if success_count > 0 else False
publish_result(success_count) == success_count > 0

\* broadcast_message 160 and publish 75-83
PublishReturn ==
    /\ pub.pc = "broadcast"
    /\ pub.todo = {}
    /\ pub' = [pub EXCEPT !.pc = "done", !.result = publish_result(pub.count)]
    /\ UNCHANGED <<host_peers, peer_up, discovered_peers, disc, messages, now, hth, last_res,
                   published, bc_failed>>
    /\ UNCHANGED engineVars
    /\ UNCHANGED lifeVars
    /\ UNCHANGED <<ech, lockVars>>

\* a peer's host starts or stops accepting connections
SetPeerUp(p) ==
    /\ peer_up' = IF p \in peer_up THEN peer_up \ {p} ELSE peer_up \cup {p}
    /\ UNCHANGED <<host_peers, discovered_peers, disc, messages, now, pub, hth, last_res,
                   published, bc_failed>>
    /\ UNCHANGED engineVars
    /\ UNCHANGED lifeVars
    /\ UNCHANGED <<ech, lockVars>>

Address(p) == <<p, "p2p_port">>

\* _listen_for_peers 111: message.get('peer_id') == self.peer_id
is_own_broadcast(p) == p = SelfId

\* _listen_for_peers 115: message.get('rendezvous') != self.rendezvous
is_our_rendezvous(rdv) == rdv = RoomName

\* a listener that treats every announcement as a new peer
is_new_peer_always(dp, p) == TRUE

\* _listen_for_peers 123: peer_id and peer_id not in self.discovered_peers
is_new_peer(dp, p) == p \notin dp

\* connect_to_peer 109-110: with peer_lock: self.peers[peer_id] = (ip, port)
peers_register(hp, p, addr) == Put(hp, p, addr)

\* _listen_for_peers 107-130 up to connect_to_peer 109-110: one announcement of
\* peer p for rendezvous rdv is received; own broadcasts and other rendezvous
\* are skipped; a new peer is added to discovered_peers and
\* on_peer_found -> on_peer_discovered -> connect_to_peer registers it
Announce(p, rdv) ==
    /\ disc.pc = "idle"
    /\ (~is_own_broadcast(p) /\ is_our_rendezvous(rdv) /\ is_new_peer(discovered_peers, p))
          => peer_lock = Free
    /\ (is_our_rendezvous(rdv) /\ p \in disc.announced) => disc.repeats < MaxRepeat
    /\ LET heard == IF is_our_rendezvous(rdv)
                    THEN [disc EXCEPT !.announced = @ \cup {p},
                                      !.repeats = IF p \in disc.announced THEN @ + 1 ELSE @]
                    ELSE disc
       IN  IF is_own_broadcast(p) \/ ~is_our_rendezvous(rdv)
           THEN /\ disc' = heard
                /\ UNCHANGED <<discovered_peers, host_peers>>
           ELSE IF is_new_peer(discovered_peers, p)
           THEN /\ discovered_peers' = discovered_peers \cup {p}
                /\ host_peers' = peers_register(host_peers, p, Address(p))
                /\ disc' = [heard EXCEPT !.pc = "handshake", !.peer = p,
                                         !.found_calls[p] = @ + 1]
           ELSE /\ disc' = heard
                /\ UNCHANGED <<discovered_peers, host_peers>>
    /\ UNCHANGED <<peer_up, messages, now, pub, hth, last_res, published, bc_failed>>
    /\ UNCHANGED engineVars
    /\ UNCHANGED lifeVars
    /\ UNCHANGED <<ech, lockVars>>

\* connect_to_peer 113-117 with _send_to_peer 125-135: the handshake send; on a
\* failure the peer is popped from self.peers under peer_lock
ConnectHandshake ==
    /\ disc.pc = "handshake"
    /\ disc.peer \notin peer_up => peer_lock = Free
    /\ disc' = [disc EXCEPT !.pc = "idle",
                            !.handshaken = IF disc.peer \in peer_up
                                           THEN @ \cup {disc.peer} ELSE @ \ {disc.peer}]
    /\ host_peers' = IF disc.peer \in peer_up
                     THEN host_peers
                     ELSE [x \in (DOMAIN host_peers) \ {disc.peer} |-> host_peers[x]]
    /\ UNCHANGED <<peer_up, discovered_peers, messages, now, pub, hth, last_res, published,
                   bc_failed>>
    /\ UNCHANGED engineVars
    /\ UNCHANGED lifeVars
    /\ UNCHANGED <<ech, lockVars>>

(* ------------------------------------------------------------------ *)
(* Lifecycle of host and discovery, inbound connections               *)
(* (host.py 31-103, 182-189; p2p/discovery.py 43-153)                 *)
(* ------------------------------------------------------------------ *)
\* P2PHost.message_handlers: the callables registered with add_message_handler
message_handlers == <<"handler_a", "handler_b">>

\* what recv(4096) gives a connection thread: a JSON handshake or chat
\* message, bytes that are not JSON, nothing (peer closed), or a timeout
ConnData ==
    [kind : {"json"}, type : {"handshake", "chat_message"}, peer_id : {"peerA"}]
    \cup [kind : {"garbage", "empty", "timeout"}, type : {"none"}, peer_id : {"none"}]

NoConnData == [kind |-> "empty", type |-> "none", peer_id |-> "none"]

\* bind: "none" before start, then "ok" or "failed"; raised: start raised to
\* its caller; acceptor: position of the _listen_for_connections thread
HostCreated == [running |-> FALSE, bind |-> "none", raised |-> FALSE, stopped |-> FALSE,
                acceptor |-> "none"]

\* announcer, listener: positions of the _broadcast_presence and
\* _listen_for_peers threads
DiscCreated == [running |-> FALSE, bind |-> "none", raised |-> FALSE, stopped |-> FALSE,
                announcer |-> "none", listener |-> "none"]

\* invoked, raised: the handlers called for this connection, in order, and
\* whether each raised
ConnIdle == [pc |-> "idle", data |-> NoConnData, parsed |-> FALSE, idx |-> 1,
             invoked |-> <<>>, raised |-> <<>>, sock_closed |-> FALSE]

InitLife ==
    /\ hrun = HostCreated
    /\ drun = DiscCreated
    /\ cth = ConnIdle

\* P2PHost.start 38-58: bind and listen; on success running = True and the
\* acceptor thread is started; on failure the exception is printed and raised
HostStart(bind_ok) ==
    /\ hrun.bind = "none"
    /\ ~hrun.stopped
    /\ hrun' = IF bind_ok
               THEN [hrun EXCEPT !.bind = "ok", !.running = TRUE, !.acceptor = "check"]
               ELSE [hrun EXCEPT !.bind = "failed", !.raised = TRUE]
    /\ UNCHANGED <<drun, cth>>
    /\ UNCHANGED <<engineVars, chatVars, ech, lockVars>>

\* _listen_for_connections 62: while self.running
AcceptorCheck ==
    /\ hrun.acceptor = "check"
    /\ hrun' = [hrun EXCEPT !.acceptor = IF hrun.running THEN "accept" ELSE "exited"]
    /\ UNCHANGED <<drun, cth>>
    /\ UNCHANGED <<engineVars, chatVars, ech, lockVars>>

\* _listen_for_connections 65-74: accept() returns a connection (the socket
\* has no timeout, so it returns only then or with an error) and a thread is
\* started for it; d is what that thread will read
AcceptorAccept(d) ==
    /\ hrun.acceptor = "accept"
    /\ cth.pc \in {"idle", "closed"}
    /\ hrun' = [hrun EXCEPT !.acceptor = "check"]
    /\ cth' = [ConnIdle EXCEPT !.pc = "recv", !.data = d]
    /\ UNCHANGED drun
    /\ UNCHANGED <<engineVars, chatVars, ech, lockVars>>

\* _listen_for_connections 78-80: accept() raises; printed if running, and
\* the loop goes on.  Whether closing the socket in stop() makes a blocked
\* accept() raise depends on the platform
AcceptorError ==
    /\ hrun.acceptor = "accept"
    /\ hrun' = [hrun EXCEPT !.acceptor = "check"]
    /\ UNCHANGED <<drun, cth>>
    /\ UNCHANGED <<engineVars, chatVars, ech, lockVars>>

\* P2PHost.stop 182-189
HostStop ==
    /\ hrun.bind = "ok"
    /\ ~hrun.stopped
    /\ hrun' = [hrun EXCEPT !.running = FALSE, !.stopped = TRUE]
    /\ UNCHANGED <<drun, cth>>
    /\ UNCHANGED <<engineVars, chatVars, ech, lockVars>>

\* _handle_peer_connection 85-87: recv and json.loads; empty data skips the
\* body, a timeout or bad JSON goes to the outer except
ConnRecv ==
    /\ cth.pc = "recv"
    /\ cth' = IF cth.data.kind = "json"
              THEN [cth EXCEPT !.parsed = TRUE,
                               !.pc = IF Len(message_handlers) = 0 THEN "finally"
                                      ELSE "dispatch"]
              ELSE [cth EXCEPT !.pc = "finally"]
    /\ UNCHANGED <<hrun, drun>>
    /\ UNCHANGED <<engineVars, chatVars, ech, lockVars>>

\* a dispatch loop that a raising handler ends
next_handler_abort(idx, raises) == IF raises THEN Len(message_handlers) + 1 ELSE idx + 1

\* _handle_peer_connection 94-98: the handler's exception is caught inside the
\* loop, which goes on with the next handler
next_handler(idx, raises) == idx + 1

\* _handle_peer_connection 94-98: handler(message) for the next handler, which
\* returns or raises; every decoded message is dispatched, whatever its type
ConnDispatch(raises) ==
    /\ cth.pc = "dispatch"
    /\ LET nxt == next_handler(cth.idx, raises)
       IN  cth' = [cth EXCEPT !.invoked = Append(@, message_handlers[cth.idx]),
                              !.raised = Append(@, raises),
                              !.idx = nxt,
                              !.pc = IF nxt > Len(message_handlers) THEN "finally"
                                     ELSE "dispatch"]
    /\ UNCHANGED <<hrun, drun>>
    /\ UNCHANGED <<engineVars, chatVars, ech, lockVars>>

\* _handle_peer_connection 102-103: finally: client_socket.close()
ConnClose ==
    /\ cth.pc = "finally"
    /\ cth' = [cth EXCEPT !.pc = "closed", !.sock_closed = TRUE]
    /\ UNCHANGED <<hrun, drun>>
    /\ UNCHANGED <<engineVars, chatVars, ech, lockVars>>

\* PeerDiscovery.start 50-72, called by init_mdns after create_host returned
\* (main.py 181-190): running = True, the bind of the listen socket (a failure
\* is printed), then both threads are started
DiscStart(bind_ok) ==
    /\ hrun.bind = "ok"
    /\ drun.bind = "none"
    /\ ~drun.stopped
    /\ drun' = [drun EXCEPT !.running = TRUE,
                            !.bind = IF bind_ok THEN "ok" ELSE "failed",
                            !.announcer = "check", !.listener = "check"]
    /\ UNCHANGED <<hrun, cth>>
    /\ UNCHANGED <<engineVars, chatVars, ech, lockVars>>

\* _broadcast_presence 80-99: while self.running: sendto (an error is
\* caught), then time.sleep(DISCOVERY_INTERVAL)
AnnouncerCheck ==
    /\ drun.announcer = "check"
    /\ drun' = [drun EXCEPT !.announcer = IF drun.running THEN "sleep" ELSE "exited"]
    /\ UNCHANGED <<hrun, cth>>
    /\ UNCHANGED <<engineVars, chatVars, ech, lockVars>>

\* _broadcast_presence 99: the sleep ends
AnnouncerWake ==
    /\ drun.announcer = "sleep"
    /\ drun' = [drun EXCEPT !.announcer = "check"]
    /\ UNCHANGED <<hrun, cth>>
    /\ UNCHANGED <<engineVars, chatVars, ech, lockVars>>

\* _listen_for_peers 105: while self.running
ListenerCheck ==
    /\ drun.listener = "check"
    /\ drun' = [drun EXCEPT !.listener = IF drun.running THEN "recv" ELSE "exited"]
    /\ UNCHANGED <<hrun, cth>>
    /\ UNCHANGED <<engineVars, chatVars, ech, lockVars>>

\* _listen_for_peers 107-138: recvfrom returns a datagram, times out after
\* 1.0 s or raises; in each case the loop goes on
ListenerRecv ==
    /\ drun.listener = "recv"
    /\ drun' = [drun EXCEPT !.listener = "check"]
    /\ UNCHANGED <<hrun, cth>>
    /\ UNCHANGED <<engineVars, chatVars, ech, lockVars>>

\* PeerDiscovery.stop 145-153
DiscStop ==
    /\ drun.running
    /\ ~drun.stopped
    /\ drun' = [drun EXCEPT !.running = FALSE, !.stopped = TRUE]
    /\ UNCHANGED <<hrun, cth>>
    /\ UNCHANGED <<engineVars, chatVars, ech, lockVars>>

(* ------------------------------------------------------------------ *)
(* TCP peer server threads (peer_server.py 7-31)                      *)
(* ------------------------------------------------------------------ *)
\* what recv(BUFFER_SIZE) gives handle_client: a JSON envelope that is not an
\* ACK, bytes that are not JSON, or nothing
EngineData ==
    [kind : {"json"}, type : {"SOS", "CHAT"}] \cup [kind : {"garbage", "empty"}, type : {"none"}]

\* raised: handle_client ended with an exception; sock_closed: conn is closed
ServerIdle == [pc |-> "idle", data |-> [kind |-> "empty", type |-> "none"],
               raised |-> FALSE, replied |-> FALSE, sock_closed |-> FALSE]

InitServer == ech = ServerIdle

\* start_server 29-31: accept and a thread for handle_client(c, a); d is what
\* that thread will read
ServerAccept(d) ==
    /\ phase = "running"
    /\ ech.pc \in {"idle", "ended"}
    /\ ech' = [ServerIdle EXCEPT !.pc = "recv", !.data = d]
    /\ UNCHANGED <<engineVars, chatVars, lifeVars, lockVars>>

\* handle_client 8-11: recv; `if not data: return`; decode_message raises on
\* bytes that are not JSON and nothing in handle_client catches it
HandleClientRecv ==
    /\ ech.pc = "recv"
    /\ ech' = IF ech.data.kind = "json" THEN [ech EXCEPT !.pc = "handle"]
              ELSE IF ech.data.kind = "empty" THEN [ech EXCEPT !.pc = "ended"]
              ELSE [ech EXCEPT !.pc = "ended", !.raised = TRUE]
    /\ UNCHANGED <<engineVars, chatVars, lifeVars, lockVars>>

\* handle_client 15-20: the message is printed, an SOS is answered with an ACK
\* on the same connection
HandleClientPrint ==
    /\ ech.pc = "handle"
    /\ ech' = [ech EXCEPT !.pc = "close", !.replied = (ech.data.type = "SOS")]
    /\ UNCHANGED <<engineVars, chatVars, lifeVars, lockVars>>

\* handle_client 22: conn.close()
HandleClientClose ==
    /\ ech.pc = "close"
    /\ ech' = [ech EXCEPT !.pc = "ended", !.sock_closed = TRUE]
    /\ UNCHANGED <<engineVars, chatVars, lifeVars, lockVars>>

\* a socket object that handle_client left without close() is closed when the
\* interpreter finalises it, which no statement of the program brings about
SocketFinalized ==
    /\ ech.pc = "ended"
    /\ ~ech.sock_closed
    /\ ech' = [ech EXCEPT !.sock_closed = TRUE]
    /\ UNCHANGED <<engineVars, chatVars, lifeVars, lockVars>>

(* ------------------------------------------------------------------ *)
(* Locks of the chat room and the host; get_room_info                 *)
(* (chatroom.py 46, 182-196; host.py 29, 172-175)                     *)
(* ------------------------------------------------------------------ *)
InfoIdle == [pc |-> "idle"]

InitLocks ==
    /\ message_lock = Free
    /\ peer_lock = Free
    /\ info = InfoIdle

\* every method takes the room's message_lock
lock_of_message(method) == "message_lock"

\* the lock a method's `with` statement names: the methods of P2PHost take
\* peer_lock (host.py 109, 134, 143, 174, 179), those of ChatRoom take
\* message_lock (chatroom.py 65, 114, 137, 150, 160, 178, 189)
lock_of(method) ==
    IF method \in {"connect_to_peer", "_send_to_peer", "broadcast_message",
                   "get_peer_count", "get_peers"}
    THEN "peer_lock" ELSE "message_lock"

HolderOf(name) == IF name = "message_lock" THEN message_lock ELSE peer_lock

\* thread t enters `with <lock>`: threading.Lock is not reentrant, the thread
\* waits until the lock is free
Acquire(name, t) ==
    /\ HolderOf(name) = Free
    /\ message_lock' = IF name = "message_lock" THEN t ELSE message_lock
    /\ peer_lock' = IF name = "peer_lock" THEN t ELSE peer_lock

\* the `with <lock>` block is left
Release(name) ==
    /\ message_lock' = IF name = "message_lock" THEN Free ELSE message_lock
    /\ peer_lock' = IF name = "peer_lock" THEN Free ELSE peer_lock

\* get_room_info is called (main.py 128) and reaches its `with` statement
InfoCall ==
    /\ info.pc = "idle"
    /\ info' = [info EXCEPT !.pc = "enter"]
    /\ UNCHANGED <<message_lock, peer_lock, ech>>
    /\ UNCHANGED <<engineVars, chatVars, lifeVars>>

\* get_room_info 189-194: with self.message_lock; the dict up to message_count
InfoEnter ==
    /\ info.pc = "enter"
    /\ Acquire(lock_of("get_room_info"), "info")
    /\ info' = [info EXCEPT !.pc = "count"]
    /\ UNCHANGED ech
    /\ UNCHANGED <<engineVars, chatVars, lifeVars>>

\* get_room_info 195 -> ChatRoom.get_peer_count 170-171 ->
\* P2PHost.get_peer_count 174: with self.peer_lock, message_lock still held
InfoCountEnter ==
    /\ info.pc = "count"
    /\ Acquire(lock_of("get_peer_count"), "info")
    /\ info' = [info EXCEPT !.pc = "counted"]
    /\ UNCHANGED ech
    /\ UNCHANGED <<engineVars, chatVars, lifeVars>>

\* P2PHost.get_peer_count 175: return len(self.peers), the lock is released
InfoCountExit ==
    /\ info.pc = "counted"
    /\ Release(lock_of("get_peer_count"))
    /\ info' = [info EXCEPT !.pc = "release"]
    /\ UNCHANGED ech
    /\ UNCHANGED <<engineVars, chatVars, lifeVars>>

\* get_room_info 190-196: the dict is returned and message_lock released
InfoReturn ==
    /\ info.pc = "release"
    /\ Release(lock_of("get_room_info"))
    /\ info' = InfoIdle
    /\ UNCHANGED ech
    /\ UNCHANGED <<engineVars, chatVars, lifeVars>>

(* ------------------------------------------------------------------ *)
(* Specifications                                                     *)
(* ------------------------------------------------------------------ *)
Init == InitEngine /\ InitChat /\ InitLife /\ InitServer /\ InitLocks

Threads == {"api", "flusher"}

\* the node as src/pythonEngine/main.py runs it: nothing calls load_buffer or
\* flush_buffer
Next ==
    \/ StartNode
    \/ \E ip \in IPs : SetReachable(ip)
    \/ \E ip \in IPs, port \in Ports : listen_for_peers(ip, port)
    \/ \E t \in MsgTypes : PostStart(t)
    \/ PostRegister
    \/ PostSend
    \/ buffer_message("api")
    \/ PostSent
    \/ WaitPoll
    \/ WaitExhausted
    \/ PostRespond
    \/ \E ip \in IPs, m \in { c[2] : c \in conns } : PeerHandleClient(ip, m)
    \/ \E ip \in IPs, id \in Ids : HandleClientAck(ip, id)

Spec == Init /\ [][Next]_vars

\* the node as main.py starts it, stopped and started again: load_buffer is
\* defined in store_forward.py but nothing that main.py runs calls it
NextRestart ==
    \/ Next
    \/ Restart

SpecRestart == Init /\ [][NextRestart]_vars

\* the store-and-forward buffer with every operation of store_forward.py
\* callable, fed by do_POST requests that need no acknowledgment; one peer
\* comes and goes, the other stays partitioned, so that its queue has to
\* survive every flush, restart and reload
UpDownIp == "ipA"

NextStore ==
    \/ StartNode
    \/ LoadBuffer
    \/ Restart
    \/ SetReachable(UpDownIp)
    \/ \E ip \in IPs, port \in Ports : listen_for_peers(ip, port)
    \/ PostStart("CHAT")
    \/ PostSend
    \/ \E t \in Threads : buffer_message(t)
    \/ PostSent
    \/ PostRespond
    \/ \E ip \in IPs, m \in { c[2] : c \in conns } : PeerHandleClient(ip, m)
    \/ \E ip \in IPs, sf \in SendFuncs : FlushStart(ip, sf)
    \/ FlushSend
    \/ FlushFinish
    \/ FlushReturn

SpecStore == Init /\ [][NextStore]_vars

\* the chat room: inbound handlers, publish (no peer is known, so the
\* broadcast reaches nobody) and clear
NextRoom ==
    \/ Tick
    \/ \E h \in Handlers, md \in InboundMsgs : HandleParse(h, md)
    \/ \E h \in Handlers : HandleAppend(h)
    \/ clear_messages
    \/ \E text \in Texts, nick \in Nicks : PublishAppend(text, nick)
    \/ BroadcastSnapshot
    \/ PublishReturn

SpecRoom == Init /\ [][NextRoom]_vars

\* the host: discovery, the peer directory and the broadcast of a publish
NextHost ==
    \/ \E p \in PeerIds : SetPeerUp(p)
    \/ \E p \in PeerIds \cup {SelfId}, rdv \in {RoomName, "other"} : Announce(p, rdv)
    \/ ConnectHandshake
    \/ \E text \in Texts, nick \in Nicks : PublishAppend(text, nick)
    \/ BroadcastSnapshot
    \/ \E p \in PeerIds : BroadcastSend(p)
    \/ PublishReturn

SpecHost == Init /\ [][NextHost]_vars

\* publish 58-73 on peer p: the broadcast_data of its ChatMessage, as this
\* node receives it by a direct send
PeerPublish(p, text, t) ==
    [type |-> "chat_message",
     data |-> [SenderID |-> p, Message |-> text, SenderNick |-> "nick",
               Timestamp |-> t, has_ts |-> TRUE],
     room |-> RoomName]

\* the announcing peer of the end-to-end scenario
PeerA == "peerA"

\* what peer A publishes: one text, at any reading of its clock
PeerAMsgs == { PeerPublish(PeerA, "help", t) : t \in 0..MaxClock }

\* the one message of peer A that the inbound handlers of SpecLocks receive
PeerAFirstMsg == { PeerPublish(PeerA, "help", 0) }

\* end to end, seen from the listening node: peer A announces (any number of
\* times, for this rendezvous or another), this node discovers and connects
\* to it, and A's published messages arrive on inbound connections
NextE2E ==
    \/ SetPeerUp(PeerA)
    \/ \E rdv \in {RoomName, "other"} : Announce(PeerA, rdv)
    \/ ConnectHandshake
    \/ \E h \in Handlers, md \in PeerAMsgs : HandleParse(h, md)
    \/ \E h \in Handlers : HandleAppend(h)

SpecE2E == Init /\ [][NextE2E]_vars

\* start, background loops, inbound connections and stop of host and discovery
NextLife ==
    \/ \E bind_ok \in BOOLEAN : HostStart(bind_ok)
    \/ AcceptorCheck
    \/ \E d \in ConnData : AcceptorAccept(d)
    \/ AcceptorError
    \/ HostStop
    \/ ConnRecv
    \/ \E raises \in BOOLEAN : ConnDispatch(raises)
    \/ ConnClose
    \/ \E bind_ok \in BOOLEAN : DiscStart(bind_ok)
    \/ AnnouncerCheck
    \/ AnnouncerWake
    \/ ListenerCheck
    \/ ListenerRecv
    \/ DiscStop

SpecLife == Init /\ [][NextLife]_vars

\* every thread runs whenever it can; a sleep and a recvfrom with a timeout
\* end by themselves, an accept() without timeout does not
AcceptorStep == AcceptorCheck
ConnStep == ConnRecv \/ (\E raises \in BOOLEAN : ConnDispatch(raises)) \/ ConnClose
AnnouncerStep == AnnouncerCheck \/ AnnouncerWake
ListenerStep == ListenerCheck \/ ListenerRecv

SpecLifeFair ==
    /\ Init /\ [][NextLife]_vars
    /\ WF_vars(AcceptorStep) /\ WF_vars(ConnStep)
    /\ WF_vars(AnnouncerStep) /\ WF_vars(ListenerStep)

\* inbound connections of both prototypes, well-formed and malformed, while
\* SOS requests leave records in the ack registry
NextInbound ==
    \/ StartNode
    \/ PostStart("SOS")
    \/ PostRegister
    \/ PostSent
    \/ WaitPoll
    \/ WaitExhausted
    \/ PostRespond
    \/ \E d \in EngineData : ServerAccept(d)
    \/ HandleClientRecv
    \/ HandleClientPrint
    \/ HandleClientClose
    \/ SocketFinalized
    \/ HostStart(TRUE)
    \/ AcceptorCheck
    \/ \E d \in ConnData : AcceptorAccept(d)
    \/ ConnRecv
    \/ \E raises \in BOOLEAN : ConnDispatch(raises)
    \/ ConnClose

SpecInbound == Init /\ [][NextInbound]_vars

\* the threads that take message_lock or peer_lock: get_room_info, publish with
\* its broadcast, an inbound handler, discovery with connect_to_peer
NextLocks ==
    \/ InfoCall
    \/ InfoEnter
    \/ InfoCountEnter
    \/ InfoCountExit
    \/ InfoReturn
    \/ SetPeerUp(PeerA)
    \/ Announce(PeerA, RoomName)
    \/ ConnectHandshake
    \/ \E text \in Texts, nick \in Nicks : PublishAppend(text, nick)
    \/ BroadcastSnapshot
    \/ BroadcastSend(PeerA)
    \/ PublishReturn
    \/ \E h \in Handlers, md \in PeerAFirstMsg : HandleParse(h, md)
    \/ \E h \in Handlers : HandleAppend(h)
    \/ clear_messages

SpecLocks == Init /\ [][NextLocks]_vars

\* the threads main.py starts run whenever they can; requests (PostStart),
\* announcements and reachability are the environment's
NodeStep ==
    \/ StartNode
    \/ PostRegister
    \/ PostSend
    \/ buffer_message("api")
    \/ PostSent
    \/ WaitPoll
    \/ WaitExhausted
    \/ PostRespond

SpecNode == Init /\ [][Next]_vars /\ WF_vars(NodeStep)

(* ------------------------------------------------------------------ *)
(* Properties                                                         *)
(* ------------------------------------------------------------------ *)
PostReturned == post.pc = "done" /\ post.msg.type = "SOS"

\* C1: an SOS is reported delivered only if every peer of its (non-empty)
\* target set has acknowledged it.
C1_AllTargetsAcked ==
    (PostReturned /\ post.delivered /\ post.targets # <<>>)
        => TargetIps(post.targets) \subseteq post.acked

\* C2: when every target of an SOS received it and its handle_client emitted
\* the ACK before the sender started to wait, wait_for_acks returns true.
C2_AckRoundTrip ==
    (PostReturned /\ post.targets # <<>> /\ TargetIps(post.targets) \subseteq post.emitted)
        => post.delivered

\* C3: wait_for_acks returns true exactly when all awaited peers had
\* acknowledged when it returned, and it never polls more than
\* SOS_RETRY_COUNT times.
C3_WaitResult ==
    PostReturned =>
        /\ post.delivered <=> (TargetIps(post.targets) \subseteq post.acked)
        /\ post.polls <= SOS_RETRY_COUNT

InQueue(b, ip, m) == ip \in DOMAIN b /\ \E i \in 1..Len(b[ip]) : b[ip][i] = m

\* C4: every failed outbound send has left its envelope in the
\* StoreForwardBuffer under the peer's address, in memory and in the file.
C4_FailedSendBuffered ==
    \A f \in bc_failed :
        /\ InQueue(buffer, f[1][1], f[2])
        /\ disk.exists
        /\ InQueue(json_load(disk.text), f[1][1], f[2])

FlushReturns == fl.pc = "flush_loop" /\ fl'.pc = "flush_done"

\* C5: after a restart, load_buffer yields the buffer as it was last saved
\* (every queued message in its position), and a flush in which every
\* redelivery succeeds leaves the peer's queue empty in memory and on disk.
C5_DurableRoundTrip ==
    /\ []((phase = "boot" /\ loaded) => buffer = saved_mem)
    /\ [][(FlushReturns /\ \A i \in 1..Len(fl.outcomes) : fl.outcomes[i])
            => /\ Get(buffer', fl.ip) = <<>>
               /\ disk'.exists
               /\ Get(json_load(disk'.text), fl.ip) = <<>>]_vars

C5_Witness ==
    /\ fl.pc = "flush_done"
    /\ loaded
    /\ fl.ip \in DOMAIN restored
    /\ Len(restored[fl.ip]) > 0
    /\ fl.msgs = restored[fl.ip]
    /\ fl.remaining = <<>>
    /\ Get(buffer, fl.ip) = <<>>

\* the envelopes of ms whose send returned False, in their order
FailedOf(ms, os) ==
    LET F[i \in 0..Len(ms)] ==
            IF i = 0 THEN <<>>
            ELSE IF os[i] THEN F[i - 1] ELSE Append(F[i - 1], ms[i])
    IN  F[Len(ms)]

\* C6: when flush_buffer(P) returns it has attempted every queued envelope
\* once, in enqueue order; P's queue is exactly the envelopes whose
\* redelivery failed, in their order, and the file holds the buffer.
C6_FlushKeepsFailed ==
    [][FlushReturns
        => /\ fl.attempts = fl.msgs
           /\ fl.msgs = Get(buffer, fl.ip)
           /\ Len(fl.outcomes) = Len(fl.msgs)
           /\ Get(buffer', fl.ip) = FailedOf(fl.msgs, fl.outcomes)
           /\ disk'.exists
           /\ json_load(disk'.text) = buffer']_vars

C6_Witness ==
    /\ fl.pc = "flush_done"
    /\ Len(fl.msgs) >= 2
    /\ \E i, j \in 1..Len(fl.outcomes) : fl.outcomes[i] /\ ~fl.outcomes[j]
    /\ Get(buffer, fl.ip) = fl.remaining
    /\ Len(fl.remaining) = 1

\* C7: a flush whose redelivery failed goes on: the thread that called
\* flush_buffer never waits in buffer_message for the lock it holds itself.
C7_FlushNeverBlocksItself ==
    fl.pc = "buffer_message" => lock # "flusher"

\* C8: an envelope buffered for a peer is eventually redelivered once the
\* peer is reachable and stays so.
C8_EventualDelivery ==
    \A ip \in IPs :
        (Len(Get(buffer, ip)) > 0) ~> (ip \notin reachable \/ Len(Get(buffer, ip)) = 0)

SameTuple(a, b) ==
    a.SenderID = b.SenderID /\ a.Message = b.Message /\ a.Timestamp = b.Timestamp

Entries(msgs, chat_msg) == { i \in 1..Len(msgs) : SameTuple(msgs[i], chat_msg) }

\* C9: however often and in whatever interleaving of handler threads a
\* (SenderID, Message, Timestamp) is delivered, the log holds one entry for
\* it: never two, and exactly one when a handler call for it ends.
C9_DuplicateSuppression ==
    /\ [](\A i \in 1..Len(messages) :
            messages[i].SenderID # SelfId => Cardinality(Entries(messages, messages[i])) = 1)
    /\ [][\A h \in Handlers :
            (hth[h].pc = "append" /\ hth'[h].pc = "idle")
                => Cardinality(Entries(messages', hth[h].chat_msg)) = 1]_vars

C9_Witness ==
    /\ last_res.res = "duplicate"
    /\ Cardinality(Entries(messages, last_res.msg)) = 1
    /\ Len(messages) >= 2

OwnEntries(msgs) == { i \in 1..Len(msgs) : msgs[i].SenderID = SelfId }

\* C10: the inbound handler never appends a message whose SenderID is the
\* local peer id: such a message never reaches the append, and every own
\* entry of the log comes from a publish call.
C10_SelfEchoRejected ==
    /\ \A h \in Handlers : hth[h].pc = "append" => hth[h].chat_msg.SenderID # SelfId
    /\ Cardinality(OwnEntries(messages)) <= published

C10_Witness ==
    /\ last_res.res = "own"
    /\ published = 1
    /\ Cardinality(OwnEntries(messages)) = 1

\* C11: the room's inbound handler leaves the log unchanged for every inbound
\* message whose type is not the chat type or whose room tag is not this
\* room's name: a handler call that changes the log carries a chat message of
\* this room, and a call that ends at the type or the room filter changes nothing
C11_ForeignEnvelopeIgnored ==
    /\ [][\A h \in Handlers :
            (hth[h].pc = "append" /\ hth'[h].pc = "idle" /\ messages' # messages)
                => (hth[h].md.type = "chat_message" /\ hth[h].md.room = RoomName)]_vars
    /\ [][(last_res' # last_res /\ last_res'.res \in {"not_chat", "other_room"})
                => messages' = messages]_vars

\* a message of another room was rejected while the log already held entries
C11_Witness ==
    /\ last_res.res = "other_room"
    /\ Len(messages) >= 1
    /\ \A h \in Handlers : hth[h].pc = "idle"

\* C12: broadcast_message returns exactly the number of peers of the
\* directory snapshot to which the send succeeded: the count equals the number
\* of successful sends at every moment of the loop, and at the return every
\* peer of the snapshot was tried once and either succeeded or failed
C12_BroadcastCount ==
    /\ pub.count = Cardinality(pub.ok)
    /\ pub.ok \subseteq DOMAIN pub.snap
    /\ pub.pc = "done" =>
          /\ pub.ok \cup pub.failed = DOMAIN pub.snap
          /\ pub.ok \cap pub.failed = {}
          /\ pub.count = Cardinality(DOMAIN pub.snap) - Cardinality(pub.failed)

\* three peers in the snapshot, exactly one send failed, 2 returned
C12_Witness ==
    /\ pub.pc = "done"
    /\ Cardinality(DOMAIN pub.snap) = 3
    /\ Cardinality(pub.failed) = 1
    /\ pub.count = 2

\* a send to peer p is attempted in this step and fails: the handshake send of
\* connect_to_peer, or one send of broadcast_message
SendFails(p) ==
    /\ p \notin peer_up
    /\ \/ disc.pc = "handshake" /\ disc'.pc = "idle" /\ disc.peer = p
       \/ pub.pc = "broadcast" /\ p \in pub.todo /\ p \notin pub'.todo

\* C13: a failed outbound send never mutates the Peer Directory: after a send
\* attempt to peer P that fails, P is still in the directory with its address
\* unchanged
C13_FailedSendKeepsPeer ==
    [][\A p \in PeerIds :
          (SendFails(p) /\ p \in DOMAIN host_peers)
              => (p \in DOMAIN host_peers' /\ host_peers'[p] = host_peers[p])]_vars

\* C14: the discovery listener invokes on_peer_found exactly once per distinct
\* peer id, however many announcements of that peer are received: once the
\* listener is back in its loop, a peer whose announcement for this
\* rendezvous was received has had one call, any other peer and this node
\* itself none
C14_FoundOncePerPeer ==
    /\ \A p \in PeerIds :
          disc.found_calls[p] = IF p \in disc.announced THEN 1 ELSE 0
    /\ disc.found_calls[SelfId] = 0

\* peerA's announcement was received three times, our own once
C14_Witness ==
    /\ disc.pc = "idle"
    /\ disc.repeats >= 2
    /\ disc.announced = {"peerA", SelfId}
    /\ disc.found_calls["peerA"] = 1

\* C15: ChatRoom.publish returns success exactly when the broadcast reached at
\* least one peer; with no successful send it returns failure (it returns, it
\* does not raise), and in both cases the message was appended once to the
\* local log: the log grew by this call's message and by nothing else
C15_PublishResult ==
    pub.pc = "done" =>
        /\ pub.result <=> (pub.ok # {})
        /\ Len(messages) = published
        /\ messages[Len(messages)] = pub.msg

\* publish returned failure after every send of a non-empty snapshot failed
C15_Witness ==
    /\ pub.pc = "done"
    /\ ~pub.result
    /\ Cardinality(DOMAIN pub.snap) >= 2
    /\ pub.failed = DOMAIN pub.snap
    /\ Len(messages) = 1

\* C16: end to end: when peer A announces with this node's rendezvous, this
\* node discovers A (one on_peer_found call) and registers it under its
\* announced address, and a publish("help") of A that is delivered to this
\* node is in the room log exactly once, however often A's announcement or
\* A's message is received
C16_EndToEnd ==
    /\ (PeerA \in disc.announced /\ disc.pc = "idle")
          => /\ PeerA \in discovered_peers
             /\ disc.found_calls[PeerA] = 1
             /\ PeerA \in DOMAIN host_peers
             /\ host_peers[PeerA] = Address(PeerA)
    /\ last_res.res \in {"appended", "duplicate"}
          => Cardinality(Entries(messages, last_res.msg)) = 1
    /\ \A i \in 1..Len(messages) : Cardinality(Entries(messages, messages[i])) = 1

\* C17: handler fault isolation: when a registered message handler raises
\* during inbound dispatch, every other registered handler is still invoked
\* with the message, the connection is still closed, and the listener keeps
\* accepting: a finished connection that decoded a message has called every
\* handler in order whatever each of them did, its socket is closed, and the
\* acceptor thread of a running host is in its loop
C17_HandlerFaultIsolation ==
    /\ (cth.pc = "closed" /\ cth.parsed) => cth.invoked = message_handlers
    /\ cth.pc = "closed" => cth.sock_closed
    /\ hrun.running => hrun.acceptor \in {"check", "accept"}

\* the first handler raised, the second was still called, the connection is
\* closed and the acceptor waits for the next one
C17_Witness ==
    /\ cth.pc = "closed"
    /\ cth.raised = <<TRUE, FALSE>>
    /\ cth.invoked = message_handlers
    /\ cth.sock_closed
    /\ hrun.running
    /\ hrun.acceptor = "accept"

\* C18: inbound HANDSHAKE handling: a HANDSHAKE received on an inbound
\* connection registers its sender in the Peer Directory and is not
\* dispatched to the application handlers; any other message is dispatched
\* to every registered handler
C18_InboundHandshake ==
    (cth.pc = "closed" /\ cth.parsed) =>
        IF cth.data.type = "handshake"
        THEN cth.data.peer_id \in DOMAIN host_peers /\ cth.invoked = <<>>
        ELSE cth.invoked = message_handlers

\* C19: shutdown liveness: after stop() was called on discovery and on the
\* host, the announcer, the UDP listener and the TCP acceptor all eventually
\* exit their loops
C19_ShutdownLiveness ==
    (hrun.stopped /\ drun.stopped)
        ~> (/\ hrun.acceptor \in {"none", "exited"}
            /\ drun.announcer \in {"none", "exited"}
            /\ drun.listener \in {"none", "exited"})

\* C20: PortInUse is fatal: when the bind of the transport socket or of the
\* discovery socket fails at startup, start raises to its caller and the
\* component is not running: flag unset, no background thread started
C20_PortInUseFatal ==
    /\ hrun.bind = "failed" =>
          hrun.raised /\ ~hrun.running /\ hrun.acceptor = "none"
    /\ drun.bind = "failed" =>
          drun.raised /\ ~drun.running /\ drun.announcer = "none" /\ drun.listener = "none"

\* a connection thread of either prototype takes a step on a malformed payload
MalformedStep ==
    \/ cth.data.kind = "garbage" /\ cth' # cth
    \/ ech.data.kind = "garbage" /\ ech' # ech /\ ech.pc # "ended"

\* C21: a malformed inbound payload is a non-fatal, per-connection error: it
\* changes no state (Peer Directory, room log, pending acks), the connection
\* is closed when its thread has ended, and the acceptor goes on
C21_MalformedIsPerConnection ==
    /\ [][MalformedStep => UNCHANGED <<host_peers, messages, pending_acks>>]_vars
    /\ []((cth.pc = "closed" /\ cth.data.kind = "garbage") => cth.sock_closed)
    /\ []((ech.pc = "ended" /\ ech.data.kind = "garbage") => ech.sock_closed)
    /\ [](hrun.running => hrun.acceptor \in {"check", "accept"})

\* C22: once wait_for_acks(m) has returned, true or false, the ack registry
\* holds no record for m.
C22_NoPendingAckLeak ==
    PostReturned => post.msg.id \notin DOMAIN pending_acks

\* C23: an SOS posted when the target snapshot is empty has a PendingAck with
\* an empty awaiting set and wait_for_acks returns true for it.
C23_EmptySnapshotConfirmed ==
    (PostReturned /\ post.targets = <<>>)
        => /\ post.delivered
           /\ post.msg.id \in DOMAIN pending_acks => pending_acks[post.msg.id] = {}

\* the envelope of the request in progress has been handed to a send: it is on
\* a connection, at a peer, or in the store-and-forward buffer
SentTo(m) ==
    { c[1] : c \in { x \in conns : x[2] = m } }
        \cup { a[1] : a \in { x \in peer_acks : x[2] = m.id } }
        \cup { ip \in IPs : InQueue(buffer, ip, m) }

\* C24: for an SOS the PendingAck is registered before the first send, its
\* awaiting set is exactly the set of targets of the snapshot, the sends go to
\* that snapshot only, and the first ACK processed for a message finds its
\* PendingAck registered.
C24_RegisterBeforeSend ==
    /\ [][(post.pc = "register" /\ post'.pc = "send")
            => /\ SentTo(post.msg) = {}
               /\ post.msg.id \notin DOMAIN pending_acks
               /\ pending_acks'[post.msg.id] = TargetIps(post.targets)]_vars
    /\ []((post.pc # "idle" /\ post.msg.type = "SOS" /\ SentTo(post.msg) # {})
            => /\ post.pc # "register"
               /\ SentTo(post.msg) \subseteq TargetIps(post.targets))
    /\ [][\A ip \in IPs, id \in Ids :
            (/\ <<id, ip>> \in acks_received' \ acks_received
             /\ \A a \in acks_received : a[1] # id)
                => /\ id \in DOMAIN pending_acks
                   /\ ip \in pending_acks[id]]_vars

\* an SOS went to a snapshot of two peers and the first ACK for it has been
\* processed while the request is still in progress
C24_Witness ==
    /\ post.msg.type = "SOS"
    /\ post.pc \in {"send", "wait"}
    /\ Cardinality(TargetIps(post.targets)) = 2
    /\ \E a \in acks_received : a[1] = post.msg.id

\* envelope m of ip's queue was redelivered successfully by the flush that is
\* returning in this step
RedeliveredNow(ip, m) ==
    /\ FlushReturns
    /\ fl.ip = ip
    /\ \E i \in 1..Len(fl.msgs) : fl.msgs[i] = m /\ fl.outcomes[i]

\* C25: while the process runs, under any interleaving of buffer_message and
\* flush_buffer, an envelope leaves a peer's queue only in the step in which a
\* flush returns that redelivered that envelope successfully; every save
\* writes the whole buffer, so what is queued in memory is queued on disk.
C25_NoBufferedMessageLost ==
    /\ [][~(phase = "running" /\ phase' = "boot")
            => \A ip \in IPs :
                 \A i \in 1..Len(Get(buffer, ip)) :
                    ~InQueue(buffer', ip, buffer[ip][i]) => RedeliveredNow(ip, buffer[ip][i])]_vars
    /\ [][disk' # disk => (disk'.exists /\ json_load(disk'.text) = buffer')]_vars
    /\ [](\A ip \in IPs :
            \A i \in 1..Len(Get(buffer, ip)) :
                disk.exists /\ InQueue(json_load(disk.text), ip, buffer[ip][i]))

\* a flush of a peer's queue returned with a successful redelivery while a
\* do_POST whose send to that peer failed was waiting for the lock, and that
\* envelope is now queued behind what the flush left
C25_Witness ==
    /\ fl.pc = "flush_done"
    /\ \E i \in 1..Len(fl.outcomes) : fl.outcomes[i]
    /\ post.pc = "send"
    /\ post.idx > 1
    /\ InQueue(buffer, fl.ip, post.msg)

IsPrefix(a, b) == Len(a) <= Len(b) /\ SubSeq(b, 1, Len(a)) = a

\* C26: in every reachable state the log holds no two entries with the same
\* (SenderID, Message, Timestamp), and no step of publish, the inbound handler
\* or clear removes or reorders an entry: the old log is a prefix of the new.
C26_RoomLogInvariant ==
    /\ [](\A i \in 1..Len(messages) : Cardinality(Entries(messages, messages[i])) = 1)
    /\ [][IsPrefix(messages, messages')]_vars

\* C27: broadcast_message holds no lock during the fan-out, so peer_lock is
\* free for connect_to_peer and get_peers while it sends, and the peers it
\* sends to are exactly those of the snapshot: a peer that is not in the
\* snapshot is never sent this message.
C27_SnapshotFanOut ==
    /\ pub.pc = "broadcast" => peer_lock = Free
    /\ pub.pc \in {"broadcast", "done"} =>
          /\ pub.todo \cup pub.ok \cup pub.failed = DOMAIN pub.snap
          /\ \A p \in (DOMAIN host_peers) \ (DOMAIN pub.snap) : p \notin pub.ok \cup pub.failed

\* connect_to_peer registered a peer while the fan-out was under way: the
\* fan-out has sent to a peer of its snapshot and the directory holds a peer
\* that the snapshot does not
C27_Witness ==
    /\ pub.pc = "broadcast"
    /\ pub.ok # {}
    /\ pub.todo # {}
    /\ \E p \in DOMAIN host_peers : p \notin DOMAIN pub.snap /\ p \in peer_up

\* C28: the messages that were in the on-disk buffer file when the process
\* stopped are still in the buffer, in memory and on disk, after the restarted
\* process has recorded its first new send failure via buffer_message.
C28_PersistedSurviveRestart ==
    [][(disk.exists /\ disk' # disk /\ post.pc = "buffer_message")
         => \A ip \in IPs :
              \A i \in 1..Len(Get(json_load(disk.text), ip)) :
                 LET m == json_load(disk.text)[ip][i]
                 IN  InQueue(buffer', ip, m) /\ InQueue(json_load(disk'.text), ip, m)]_vars

\* C29: once the discovery listener has reported peer P (P is in
\* discovered_peers and on_peer_found has returned), P is in the host's Peer
\* Directory in every later state, also when the handshake send to P failed.
C29_DiscoveredStaysRoutable ==
    \A p \in discovered_peers :
        ~(disc.pc = "handshake" /\ disc.peer = p) => p \in DOMAIN host_peers

LockThreads == {"info", "pub", "disc"} \cup Handlers

\* the lock thread t is waiting for at its position, "none" if it waits for
\* no lock
WaitsFor(t) ==
    IF t = "info"
    THEN IF info.pc = "enter" THEN lock_of("get_room_info")
         ELSE IF info.pc = "count" THEN lock_of("get_peer_count")
         ELSE "none"
    ELSE IF t = "pub"
    THEN IF pub.pc = "snapshot" THEN lock_of("broadcast_message") ELSE "none"
    ELSE IF t = "disc"
    THEN IF disc.pc = "handshake" /\ disc.peer \notin peer_up
         THEN lock_of("_send_to_peer") ELSE "none"
    ELSE IF hth[t].pc = "append" THEN lock_of("_handle_incoming_message") ELSE "none"

\* t waits for no lock, or for a free one, or for one whose holder is another
\* thread that can itself proceed (n bounds the length of the chain)
RECURSIVE CanProceed(_, _)
CanProceed(t, n) ==
    \/ WaitsFor(t) = "none"
    \/ HolderOf(WaitsFor(t)) = Free
    \/ /\ n > 0
       /\ HolderOf(WaitsFor(t)) # t
       /\ CanProceed(HolderOf(WaitsFor(t)), n - 1)

\* C30: under any interleaving of publish, inbound handling, get_room_info,
\* broadcast_message and connect_to_peer no thread is in a wait that cannot
\* end: whatever lock a thread waits for is free or held by a thread that can
\* proceed to release it.
C30_NoLockDeadlock ==
    \A t \in LockThreads : CanProceed(t, 2)

\* get_room_info holds both locks while an inbound handler waits for
\* message_lock and broadcast_message waits for peer_lock
C30_Witness ==
    /\ info.pc = "counted"
    /\ message_lock = "info"
    /\ peer_lock = "info"
    /\ \E h \in Handlers : hth[h].pc = "append"
    /\ pub.pc = "snapshot"

====
